---- MODULE Spec2Model ----
(***************************************************************************)
(* Express tracing integration (packages/tracing/src/integrations/         *)
(* express.ts): the setup hook, the patched app.use, the arity-dispatched  *)
(* middleware wrapper, its substitute continuation and its 'finish'        *)
(* listener.                                                               *)
(*                                                                         *)
(* JavaScript values are records with a "kind" field.  A call completes    *)
(* with a completion record: Return(v) or Throw(e).                        *)
(***************************************************************************)
EXTENDS Integers, Sequences, FiniteSets, TLC

VARIABLES
  hasApp,      \* Express._app is set (options.app was supplied)
  installs,    \* interceptor layers instrumentMiddlewares has put on app.use
  logErrors,   \* calls of logger.error
  useArgs,     \* the argument list the application owner has prepared for app.use
  registered,  \* callables the unpatched app.use has accepted
  handler,     \* the wrapped callable the host framework invokes
  txn,         \* res.__sentry_transaction of every response
  listeners,   \* 'finish' listeners of every response
  spans,       \* the spans started so far
  invs,        \* the closures of the wrapped invocations made so far
  obs          \* what the caller of the most recent operation observed

vars == <<hasApp, installs, logErrors, useArgs, registered, handler, txn,
          listeners, spans, invs, obs>>

----------------------------------------------------------------------------
(* Bounds *)

MaxSetup == 2
MaxArgs == 2
MaxSeq == 2
MaxInv == 2
MaxNext == 2

----------------------------------------------------------------------------
(* Values *)

Undefined == [kind |-> "undefined"]

Return(v) == [kind |-> "return", val |-> v]

Throw(e) == [kind |-> "throw", val |-> e]

Fn(name, arity) == [kind |-> "fn", name |-> name, arity |-> arity]

\* Callables of the supported shapes: sync, async, error handler.
OkFns == {Fn("sync", 2), Fn("async", 3), Fn("errorHandler", 4)}

PathVal == [kind |-> "string", val |-> "/path"]

ArrayVal(elems) == [kind |-> "array", elems |-> elems]

AppVal == [kind |-> "object", val |-> "app"]

RouterVal == [kind |-> "object", val |-> "router"]

\* One supported callable beside one wrap cannot handle (too few or too many
\* declared parameters): every shape appears.
FnPairs ==
  {<<Fn("sync", 2), Fn("unary", 1)>>, <<Fn("async", 3), Fn("quinary", 5)>>,
   <<Fn("errorHandler", 4), Fn("unary", 1)>>}

\* typeof v === 'function'
IsFunction(v) == v.kind \in {"fn", "wrapped"}

\* Array.isArray(v)
IsArray(v) == v.kind = "array"

----------------------------------------------------------------------------
(* wrap *)

UnsupportedArity(arrity) ==
  [kind |-> "Error", message |-> "Express middleware takes 2-4 arguments. Got: ",
   got |-> arrity]

\* The replacement function: it keeps the original in its closure and has as
\* many declared parameters as the case that built it.
Wrapped(fn, arrity) == [kind |-> "wrapped", fn |-> fn, arity |-> arrity]

\* A wrap whose default case hands the callable back instead of throwing.
wrapLenient(fn) ==
  LET arrity == fn.arity IN
  CASE arrity = 2 -> Return(Wrapped(fn, 2))
    [] arrity = 3 -> Return(Wrapped(fn, 3))
    [] arrity = 4 -> Return(Wrapped(fn, 4))
    [] OTHER -> Return(fn)

wrap(fn) ==
  LET arrity == fn.arity IN
  CASE arrity = 2 -> Return(Wrapped(fn, 2))
    [] arrity = 3 -> Return(Wrapped(fn, 3))
    [] arrity = 4 -> Return(Wrapped(fn, 4))
    [] OTHER -> Throw(UnsupportedArity(arrity))

----------------------------------------------------------------------------
(* wrapUseArgs *)

\* The first throwing completion of a sequence of completions, in call order,
\* or the sequence of the values returned when none throws.
Collect(results) ==
  LET bad == {i \in 1..Len(results) : results[i].kind = "throw"} IN
  IF bad # {}
  THEN results[CHOOSE i \in bad : \A j \in bad : i <= j]
  ELSE Return([i \in 1..Len(results) |-> results[i].val])

\* arg.map(a => typeof a === 'function' ? wrap(a) : a)
wrapElements(elems) ==
  LET c == Collect([j \in 1..Len(elems) |->
                      IF IsFunction(elems[j]) THEN wrap(elems[j])
                      ELSE Return(elems[j])])
  IN IF c.kind = "throw" THEN c ELSE Return(ArrayVal(c.val))

\* A wrapUseArgs that wraps top-level callables only and forwards arrays as is.
wrapUseArgsShallow(args) ==
  Collect([i \in 1..Len(args) |->
             IF IsFunction(args[i]) THEN wrap(args[i]) ELSE Return(args[i])])

wrapUseArgs(args) ==
  Collect([i \in 1..Len(args) |->
             IF IsFunction(args[i]) THEN wrap(args[i])
             ELSE IF IsArray(args[i]) THEN wrapElements(args[i].elems)
             ELSE Return(args[i])])

----------------------------------------------------------------------------
(* instrumentMiddlewares: app.use after `layers` installations *)

UseCall(layer, this, args) == [layer |-> layer, this |-> this, args |-> args]

\* app.use is called with `this` and `args`; layer 0 is the framework's own
\* app.use, which completes with `orig`.  The result is the completion the
\* caller sees and the calls made of each layer's originalAppUse.
RECURSIVE appUse(_, _, _, _)
\* A patched app.use that catches what originalAppUse throws and returns the receiver.
appUseCatching(layers, this, args, orig) ==
  IF layers = 0 THEN [out |-> orig, calls |-> <<>>]
  ELSE LET w == wrapUseArgs(args) IN
       IF w.kind = "throw" THEN [out |-> w, calls |-> <<>>]
       ELSE LET r == appUse(layers - 1, this, w.val, orig) IN
            [out |-> IF r.out.kind = "throw" THEN Return(this) ELSE r.out,
             calls |-> <<UseCall(layers - 1, this, w.val)>> \o r.calls]

appUse(layers, this, args, orig) ==
  IF layers = 0 THEN [out |-> orig, calls |-> <<>>]
  ELSE LET w == wrapUseArgs(args) IN
       IF w.kind = "throw" THEN [out |-> w, calls |-> <<>>]
       ELSE LET r == appUse(layers - 1, this, w.val, orig) IN
            [out |-> r.out,
             calls |-> <<UseCall(layers - 1, this, w.val)>> \o r.calls]

\* What the framework's own app.use does with its arguments: it throws, or it
\* keeps the callables (those inside arrays too) and returns the receiver.
UseError == [kind |-> "TypeError", message |-> "app.use() requires a middleware function"]

OrigCompletions(this) == {Return(this), Throw(UseError)}

RECURSIVE CallablesIn(_)
CallablesIn(v) ==
  IF IsFunction(v) THEN {v}
  ELSE IF IsArray(v) THEN UNION {CallablesIn(v.elems[j]) : j \in 1..Len(v.elems)}
  ELSE {}

Callables(args) == UNION {CallablesIn(args[i]) : i \in 1..Len(args)}

\* The arguments that reach the framework's own app.use, when it is reached.
Innermost(args, r) == IF r.calls = <<>> THEN args ELSE r.calls[Len(r.calls)].args

----------------------------------------------------------------------------
(* Express.setupOnce *)

\* A setupOnce that logs the missing instance and goes on to instrument.
setupOnceNoReturn(app, n, errs) ==
  IF ~app THEN [installs |-> n + 1, logErrors |-> errs + 1, out |-> Return(Undefined)]
  ELSE [installs |-> n + 1, logErrors |-> errs, out |-> Return(Undefined)]

setupOnce(app, n, errs) ==
  IF ~app THEN [installs |-> n, logErrors |-> errs + 1, out |-> Return(Undefined)]
  ELSE [installs |-> n + 1, logErrors |-> errs, out |-> Return(Undefined)]

----------------------------------------------------------------------------
(* Argument lists of app.use: app.use([<path>], <fn>, ...<fn>) and         *)
(* app.use([<path>], ...<fn>[]), over a path, one supported and one        *)
(* unsupported callable, with at most one array among the arguments; the   *)
(* array may hold an array of its own.                                     *)

Lists(A, n) == UNION {[1..k -> A] : k \in 0..n}

ArgListsOver(ok, bad) ==
  LET A == {PathVal, ok, bad}
      E == A \cup {ArrayVal(<<bad>>)}
  IN Lists(A, MaxArgs)
     \cup {[l EXCEPT ![i] = ArrayVal(s)] :
             <<l, i, s>> \in {<<l, i, s>> \in Lists(A, MaxArgs) \X (1..MaxArgs) \X Lists(E, MaxSeq) :
                               i <= Len(l)}}

ArgLists == UNION {ArgListsOver(p[1], p[2]) : p \in FnPairs}

----------------------------------------------------------------------------
(* State *)

NoObs == [op |-> "none"]

Responses == {"resA", "resB"}

NoTxn == [kind |-> "undefined"]

InitServing ==
  /\ txn = [r \in Responses |-> NoTxn]
  /\ listeners = [r \in Responses |-> <<>>]
  /\ spans = <<>>
  /\ invs = <<>>

\* Registration: an integration is constructed with or without an
\* application, and the owner has an argument list for app.use.
Init ==
  /\ hasApp \in BOOLEAN
  /\ installs = 0
  /\ logErrors = 0
  /\ useArgs \in ArgLists
  /\ registered = {}
  /\ handler = Undefined
  /\ InitServing
  /\ obs = NoObs

serving == <<handler, txn, listeners, spans, invs>>

SetupOnce ==
  /\ installs + logErrors < MaxSetup
  /\ LET r == setupOnce(hasApp, installs, logErrors) IN
     /\ installs' = r.installs
     /\ logErrors' = r.logErrors
     /\ obs' = [op |-> "setupOnce", out |-> r.out,
                installsBefore |-> installs, logErrorsBefore |-> logErrors]
  /\ UNCHANGED <<hasApp, useArgs, registered, serving>>

\* How the owner calls the patched app.use: on the application with the
\* prepared arguments, or on a router with all of them but the last.
UseCalls ==
  {[this |-> AppVal, args |-> useArgs]}
  \cup (IF useArgs = <<>> THEN {}
        ELSE {[this |-> RouterVal, args |-> SubSeq(useArgs, 1, Len(useArgs) - 1)]})

\* A call of the patched app.use, which exists once instrumentMiddlewares has
\* run.
Use ==
  /\ installs >= 1
  /\ \E call \in UseCalls :
       \E orig \in OrigCompletions(call.this) :
         LET r == appUse(installs, call.this, call.args, orig) IN
         /\ registered' = IF r.calls # <<>> /\ r.out.kind = "return"
                          THEN registered \cup Callables(Innermost(call.args, r))
                          ELSE registered
         /\ obs' = [op |-> "use", this |-> call.this, args |-> call.args,
                    calls |-> r.calls, orig |-> orig, out |-> r.out,
                    before |-> registered]
         /\ UNCHANGED <<hasApp, installs, logErrors, useArgs, serving>>

Next == SetupOnce \/ Use

Spec == Init /\ [][Next]_vars

----------------------------------------------------------------------------
(* The wrapped callable at work *)

ReqVal(r) == [kind |-> "request", id |-> r]

ResVal(r) == [kind |-> "response", id |-> r]

\* The framework's continuation for the request of response r.
NextVal(r) == [kind |-> "next", id |-> r]

ErrVal == [kind |-> "Error", message |-> "boom"]

ExtraVal == [kind |-> "string", val |-> "extra"]

ResultVal == [kind |-> "string", val |-> "result"]

\* The transaction the tracing layer keeps for the request of response r.
Txn(r) == [kind |-> "transaction", id |-> r]

\* The function handed to the original callable in place of next, made by
\* invocation i.
Substitute(i) == [kind |-> "substitute", inv |-> i]

\* args[k], or undefined past the end of the argument list.
Arg(args, k) == IF k <= Len(args) THEN args[k] ELSE Undefined

\* res.__sentry_transaction
SentryTransaction(res) == txn[res.id]

\* transaction.startChild({description, op}): a new span, not finished.  by
\* and finishedBy record the invocation that started it and those whose
\* callbacks called finish on it.
startChild(sp, transaction, ctx, i) ==
  Append(sp, [txn |-> transaction, description |-> ctx.description, op |-> ctx.op,
              finishCalls |-> 0, by |-> i, finishedBy |-> {}])

\* span.finish()
finish(sp, sid, i) ==
  [sp EXCEPT ![sid].finishCalls = @ + 1, ![sid].finishedBy = @ \cup {i}]

\* A listener that stays registered after it has run (res.on).
on(ls, res, i, sid) ==
  [ls EXCEPT ![res.id] = Append(@, [inv |-> i, span |-> sid, once |-> FALSE])]

\* res.once('finish', () => { span.finish(); })
once(ls, res, i, sid) ==
  [ls EXCEPT ![res.id] = Append(@, [inv |-> i, span |-> sid, once |-> TRUE])]

\* The closure of invocation i: the span and the next its callbacks see.
Closure(i, form, sid, next) == [id |-> i, form |-> form, span |-> sid, next |-> next]

\* A substitute continuation that enters next before it finishes the span.
substituteNextFirst(clo, sp, this, args, nextOut) ==
  [spans |-> IF clo.span # 0 /\ nextOut.kind = "return"
             THEN finish(sp, clo.span, clo.id) ELSE sp,
   log |-> <<"next">> \o (IF clo.span # 0 /\ nextOut.kind = "return"
                          THEN <<"span.finish">> ELSE <<>>),
   nextCalls |-> <<[fn |-> clo.next, this |-> this, args |-> args]>>,
   out |-> nextOut]

\* A substitute continuation that finishes the span started last, whichever
\* invocation started it (a span kept outside the closure).
substituteShared(clo, sp, this, args, nextOut) ==
  [spans |-> IF clo.span # 0 THEN finish(sp, Len(sp), clo.id) ELSE sp,
   log |-> (IF clo.span # 0 THEN <<"span.finish">> ELSE <<>>) \o <<"next">>,
   nextCalls |-> <<[fn |-> clo.next, this |-> this, args |-> args]>>,
   out |-> nextOut]

\* function() { if (span) { span.finish(); } return next.apply(this, arguments); }
\* next completes with nextOut.
substitute(clo, sp, this, args, nextOut) ==
  [spans |-> IF clo.span # 0 THEN finish(sp, clo.span, clo.id) ELSE sp,
   log |-> (IF clo.span # 0 THEN <<"span.finish">> ELSE <<>>) \o <<"next">>,
   nextCalls |-> <<[fn |-> clo.next, this |-> this, args |-> args]>>,
   out |-> nextOut]

\* The body of an original callable: whether it calls the continuation it was
\* given before it completes, and how it completes.
Bodies == [syncNext : BOOLEAN, out : {Return(ResultVal), Throw(ErrVal)}]

SpanContext(fn) == [description |-> fn.name, op |-> "middleware"]

\* case 2: the replacement of a (req, res) callable.
wrapped2(fn, sp, ls, i, this, args, body) ==
  LET res == Arg(args, 2)
      transaction == SentryTransaction(res)
      sp1 == IF transaction # NoTxn
             THEN startChild(sp, transaction, SpanContext(fn), i) ELSE sp
      sid == IF transaction # NoTxn THEN Len(sp1) ELSE 0
      ls1 == IF transaction # NoTxn THEN once(ls, res, i, sid) ELSE ls
  IN [spans |-> sp1, listeners |-> ls1, clo |-> Closure(i, 2, sid, Undefined),
      log |-> (IF transaction # NoTxn THEN <<"startChild", "res.once">> ELSE <<>>)
              \o <<"fn">>,
      fnCalls |-> <<[this |-> this, args |-> args]>>,
      syncNexts |-> 0,
      out |-> body.out]

\* The call of the original callable of cases 3 and 4: fnArgs ends with the
\* substitute continuation, which the body may call before it completes.
callOriginal(clo, sp1, ls, this, fnArgs, body) ==
  LET sub == IF body.syncNext
             THEN substitute(clo, sp1, Undefined, <<>>, Return(Undefined))
             ELSE [spans |-> sp1, log |-> <<>>]
  IN [spans |-> sub.spans, listeners |-> ls, clo |-> clo,
      log |-> (IF clo.span # 0 THEN <<"startChild">> ELSE <<>>)
              \o <<"fn">> \o sub.log,
      fnCalls |-> <<[this |-> this, args |-> fnArgs]>>,
      syncNexts |-> IF body.syncNext THEN 1 ELSE 0,
      out |-> IF body.out.kind = "throw" THEN body.out ELSE Return(Undefined)]

\* case 3: the replacement of a (req, res, next) callable.
wrapped3(fn, sp, ls, i, this, args, body) ==
  LET req == Arg(args, 1)
      res == Arg(args, 2)
      next == Arg(args, 3)
      transaction == SentryTransaction(res)
      sp1 == IF transaction # NoTxn
             THEN startChild(sp, transaction, SpanContext(fn), i) ELSE sp
      sid == IF transaction # NoTxn THEN Len(sp1) ELSE 0
  IN callOriginal(Closure(i, 3, sid, next), sp1, ls, this,
                  <<req, res, Substitute(i)>>, body)

\* case 4: the replacement of an (err, req, res, next) callable.
wrapped4(fn, sp, ls, i, this, args, body) ==
  LET err == Arg(args, 1)
      req == Arg(args, 2)
      res == Arg(args, 3)
      next == Arg(args, 4)
      transaction == SentryTransaction(res)
      sp1 == IF transaction # NoTxn
             THEN startChild(sp, transaction, SpanContext(fn), i) ELSE sp
      sid == IF transaction # NoTxn THEN Len(sp1) ELSE 0
  IN callOriginal(Closure(i, 4, sid, next), sp1, ls, this,
                  <<err, req, res, Substitute(i)>>, body)

\* A call of the replacement function w.
callWrapped(w, sp, ls, i, this, args, body) ==
  CASE w.arity = 2 -> wrapped2(w.fn, sp, ls, i, this, args, body)
    [] w.arity = 3 -> wrapped3(w.fn, sp, ls, i, this, args, body)
    [] w.arity = 4 -> wrapped4(w.fn, sp, ls, i, this, args, body)

\* The arguments the framework calls a handler of the given arity with for
\* the request of response r; with extra, one argument more than the handler
\* declares.
HostArgs(arity, r, extra) ==
  CASE arity = 2 -> <<ReqVal(r), ResVal(r)>> \o (IF extra THEN <<NextVal(r)>> ELSE <<>>)
    [] arity = 3 -> <<ReqVal(r), ResVal(r), NextVal(r)>>
                    \o (IF extra THEN <<ExtraVal>> ELSE <<>>)
    [] arity = 4 -> <<ErrVal, ReqVal(r), ResVal(r), NextVal(r)>>
                    \o (IF extra THEN <<ExtraVal>> ELSE <<>>)

\* How the framework calls a handler: on the application with the arguments
\* the handler declares, or on a router with one argument more.
HostCalls == {[this |-> AppVal, extra |-> FALSE], [this |-> RouterVal, extra |-> TRUE]}

\* How an original callable calls its continuation: next() on no receiver, or
\* next(err) on a receiver.
NextCalls == {[this |-> Undefined, args |-> <<>>], [this |-> RouterVal, args |-> <<ErrVal>>]}

\* Serving: the integration is set up, one supported callable has been
\* registered through the patched app.use, and no request has been handled.
InitServe ==
  /\ hasApp = TRUE
  /\ installs = 1
  /\ logErrors = 0
  /\ \E fn \in OkFns :
       /\ useArgs = <<fn>>
       /\ handler = wrap(fn).val
       /\ registered = {wrap(fn).val}
  /\ InitServing
  /\ obs = NoObs

registration == <<hasApp, installs, logErrors, useArgs, registered>>

\* The continuation calls made so far, over all invocations.
RECURSIVE ContinuationCalls(_)
ContinuationCalls(is) ==
  IF is = <<>> THEN 0 ELSE Head(is).nextCalls + ContinuationCalls(Tail(is))

\* The tracing layer attaches the request's transaction to the response.
StartTransaction ==
  \E r \in Responses :
    /\ txn[r] = NoTxn
    /\ txn' = [txn EXCEPT ![r] = Txn(r)]
    /\ UNCHANGED <<registration, handler, listeners, spans, invs, obs>>

\* The framework calls the handler for the request of response r.
Invoke ==
  \E r \in Responses, call \in HostCalls, body \in Bodies :
    LET i == Len(invs) + 1
        this == call.this
        args == HostArgs(handler.arity, r, call.extra)
        c == callWrapped(handler, spans, listeners, i, this, args, body)
    IN
    /\ Len(invs) < MaxInv
    /\ body.syncNext => handler.arity # 2 /\ ContinuationCalls(invs) < MaxNext
    /\ spans' = c.spans
    /\ listeners' = c.listeners
    /\ invs' = Append(invs, [clo |-> c.clo, res |-> r, seen |-> txn[r],
                             nextCalls |-> c.syncNexts])
    /\ obs' = [op |-> "call", inv |-> i, form |-> handler.arity, this |-> this,
               args |-> args, seen |-> txn[r], fnCalls |-> c.fnCalls,
               fnOut |-> body.out, out |-> c.out, log |-> c.log,
               started |-> Len(c.spans) - Len(spans),
               listening |-> Len(c.listeners[r]) - Len(listeners[r])]
    /\ UNCHANGED <<registration, handler, txn>>

\* The original callable of invocation i calls the continuation it was given,
\* after its body has returned.
CallNext ==
  \E i \in 1..Len(invs), call \in NextCalls,
     nextOut \in {Return(ResultVal), Throw(ErrVal)} :
    LET this == call.this
        args == call.args
        c == substitute(invs[i].clo, spans, this, args, nextOut)
    IN
    /\ invs[i].clo.form # 2
    /\ ContinuationCalls(invs) < MaxNext
    /\ spans' = c.spans
    /\ invs' = [invs EXCEPT ![i].nextCalls = @ + 1]
    /\ obs' = [op |-> "next", inv |-> i, this |-> this, args |-> args,
               nextCalls |-> c.nextCalls, nextOut |-> nextOut, out |-> c.out,
               log |-> c.log]
    /\ UNCHANGED <<registration, handler, txn, listeners>>

\* The listeners of a response run in the order they were registered.
RECURSIVE runListeners(_, _)
runListeners(sp, ls) ==
  IF ls = <<>> THEN sp
  ELSE runListeners(finish(sp, Head(ls).span, Head(ls).inv), Tail(ls))

KeptListeners(ls) == SelectSeq(ls, LAMBDA l : ~l.once)

\* The response emits 'finish'.
EmitFinish ==
  \E r \in Responses :
    /\ spans' = runListeners(spans, listeners[r])
    /\ listeners' = [listeners EXCEPT ![r] = KeptListeners(@)]
    /\ obs' = [op |-> "emit", res |-> r, ran |-> Len(listeners[r])]
    /\ UNCHANGED <<registration, handler, txn, invs>>

NextServe == StartTransaction \/ Invoke \/ CallNext \/ EmitFinish \/ Use

SpecServe == InitServe /\ [][NextServe]_vars

----------------------------------------------------------------------------
(* Properties *)

Supported(fn) == fn.arity \in {2, 3, 4}

\* Some callable among the arguments, or among the elements of an array
\* argument, declares fewer than 2 or more than 4 parameters.
HasUnsupported(args) ==
  \E i \in 1..Len(args) :
    \/ IsFunction(args[i]) /\ ~Supported(args[i])
    \/ /\ IsArray(args[i])
       /\ \E j \in 1..Len(args[i].elems) :
            IsFunction(args[i].elems[j]) /\ ~Supported(args[i].elems[j])

\* b is the wrapped form of the callable a.
IsWrappedForm(a, b) == b.kind = "wrapped" /\ b.fn = a /\ b.arity = a.arity

\* b is what the original app.use is to receive for the argument a.
Transformed(a, b) ==
  IF IsFunction(a) THEN IsWrappedForm(a, b)
  ELSE IF IsArray(a)
  THEN /\ IsArray(b)
       /\ Len(b.elems) = Len(a.elems)
       /\ \A j \in 1..Len(a.elems) :
            IF IsFunction(a.elems[j]) THEN IsWrappedForm(a.elems[j], b.elems[j])
            ELSE b.elems[j] = a.elems[j]
  ELSE b = a

SpansBy(i) == {s \in 1..Len(spans) : spans[s].by = i}

\* The listeners of invocation i still registered on its response.
Pending(i) ==
  Len(SelectSeq(listeners[invs[i].res], LAMBDA l : l.span = invs[i].clo.span))

Occurs(e, log) == \E k \in 1..Len(log) : log[k] = e

\* C1: a wrapped callable of arity 2, 3 or 4 called on a response with no
\* transaction starts no span, finishes no span, registers no 'finish'
\* listener and returns what the original callable returns.
C1_PassThrough ==
  (obs.op = "call" /\ obs.seen = NoTxn) =>
    /\ obs.started = 0
    /\ ~Occurs("span.finish", obs.log)
    /\ obs.listening = 0
    /\ obs.out = obs.fnOut

\* C2: a wrapped 3- or 4-arity callable called with a transaction starts
\* exactly one span, and that span is finished exactly once when the
\* continuation has been called at least once and never otherwise; no span is
\* finished more than once.
C2_SingleFinish ==
  \A i \in 1..Len(invs) :
    (invs[i].clo.form \in {3, 4} /\ invs[i].seen # NoTxn) =>
      /\ Cardinality(SpansBy(i)) = 1
      /\ invs[i].clo.span \in SpansBy(i)
      /\ spans[invs[i].clo.span].finishCalls = IF invs[i].nextCalls >= 1 THEN 1 ELSE 0

\* C3: a wrapped 2-arity callable called with a transaction starts exactly one
\* span before the original callable runs; the return of the original
\* callable does not finish it, the first 'finish' event of the response
\* finishes it, and later 'finish' events do not finish it again.
C3_FinishOnce ==
  /\ \A i \in 1..Len(invs) :
       (invs[i].clo.form = 2 /\ invs[i].seen # NoTxn) =>
         /\ Cardinality(SpansBy(i)) = 1
         /\ invs[i].clo.span \in SpansBy(i)
         /\ spans[invs[i].clo.span].finishCalls + Pending(i) = 1
         /\ (obs.op = "emit" /\ obs.res = invs[i].res) =>
              spans[invs[i].clo.span].finishCalls = 1
  /\ (obs.op = "call" /\ obs.form = 2 /\ obs.seen # NoTxn) =>
       /\ obs.log = <<"startChild", "res.once", "fn">>
       /\ spans[invs[obs.inv].clo.span].finishCalls = 0

\* A response whose span is finished emits 'finish' once more.
C3_Witness ==
  /\ obs.op = "emit"
  /\ obs.ran = 0
  /\ \E i \in 1..Len(invs) :
       /\ invs[i].clo.form = 2
       /\ invs[i].res = obs.res
       /\ invs[i].clo.span # 0
       /\ spans[invs[i].clo.span].finishCalls = 1

\* C4: wrap throws for a callable that declares fewer than 2 or more than 4
\* parameters; a call of the patched app.use with such a callable as an
\* argument or as an element of an array argument throws that error without
\* calling the original app.use, and what earlier calls registered stays.
C4_UnsupportedArity ==
  (obs.op = "use" /\ HasUnsupported(obs.args)) =>
    /\ obs.out.kind = "throw"
    /\ obs.out.val.kind = "Error"
    /\ obs.out.val.got \notin {2, 3, 4}
    /\ obs.calls = <<>>
    /\ registered = obs.before

\* After an earlier call registered a wrapped callable, a call with an
\* unsupported callable inside an array has thrown.
C4_Witness ==
  /\ obs.op = "use"
  /\ obs.out.kind = "throw"
  /\ registered # {}
  /\ \E i \in 1..Len(obs.args) :
       /\ IsArray(obs.args[i])
       /\ \E j \in 1..Len(obs.args[i].elems) :
            IsFunction(obs.args[i].elems[j]) /\ ~Supported(obs.args[i].elems[j])

\* C5: a call of the patched app.use whose callables all have arity 2 to 4
\* calls the original app.use exactly once, on the same receiver, with as many
\* arguments in the same order: callables wrapped, arrays replaced by arrays of
\* the same length with their callables wrapped and their other elements
\* unchanged, everything else unchanged; and it returns what the original
\* app.use returns.
C5_ArgsTransformed ==
  (obs.op = "use" /\ ~HasUnsupported(obs.args)) =>
    /\ Cardinality({k \in 1..Len(obs.calls) : obs.calls[k].layer = installs - 1}) = 1
    /\ obs.calls[1].layer = installs - 1
    /\ obs.calls[1].this = obs.this
    /\ Len(obs.calls[1].args) = Len(obs.args)
    /\ \A k \in 1..Len(obs.args) : Transformed(obs.args[k], obs.calls[1].args[k])
    /\ obs.out = obs.orig

\* app.use(fn, [fn, "/path"]) has been forwarded and has returned.
C5_Witness ==
  /\ obs.op = "use"
  /\ obs.out.kind = "return"
  /\ Len(obs.args) = 2
  /\ IsFunction(obs.args[1])
  /\ IsArray(obs.args[2])
  /\ Len(obs.args[2].elems) = 2
  /\ IsFunction(obs.args[2].elems[1])
  /\ obs.args[2].elems[2] = PathVal

\* C6: a wrapped callable called on a receiver with n arguments calls the
\* original callable exactly once on that receiver with the same n arguments
\* in the same order, but for the continuation of the 3- and 4-arity forms,
\* which is replaced by the substitute continuation.
C6_AllArgsForwarded ==
  obs.op = "call" =>
    /\ Len(obs.fnCalls) = 1
    /\ obs.fnCalls[1].this = obs.this
    /\ Len(obs.fnCalls[1].args) = Len(obs.args)
    /\ \A k \in 1..Len(obs.args) :
         IF obs.form \in {3, 4} /\ k = obs.form
         THEN obs.fnCalls[1].args[k] = Substitute(obs.inv)
         ELSE obs.fnCalls[1].args[k] = obs.args[k]

\* C7: what the original callable throws during a wrapped call, and what the
\* original app.use throws during a call of the patched app.use, is what the
\* caller sees thrown.
C7_ErrorsPropagate ==
  /\ (obs.op = "call" /\ obs.fnOut.kind = "throw") => obs.out = obs.fnOut
  /\ (obs.op = "use" /\ obs.calls # <<>> /\ obs.orig.kind = "throw") =>
       obs.out = obs.orig

\* The original callable of a 3- or 4-arity form has thrown during a call with
\* a transaction.
C7_Witness ==
  /\ obs.op = "call"
  /\ obs.form \in {3, 4}
  /\ obs.seen # NoTxn
  /\ obs.fnOut = Throw(ErrVal)

\* C8: setupOnce without an application logs one error, returns and installs
\* nothing; setupOnce with an application installs the patched app.use once
\* and logs nothing.
C8_SetupOnce ==
  obs.op = "setupOnce" =>
    /\ obs.out = Return(Undefined)
    /\ IF hasApp
       THEN installs = obs.installsBefore + 1 /\ logErrors = obs.logErrorsBefore
       ELSE installs = obs.installsBefore /\ logErrors = obs.logErrorsBefore + 1

\* setupOnce has run without an application.
C8_Witness == obs.op = "setupOnce" /\ ~hasApp /\ logErrors = 1 /\ installs = 0

\* C9: in a wrapped 3- or 4-arity call with a transaction the span is started
\* before the original callable is entered, and the substitute continuation
\* calls finish before it enters next; every call of the substitute
\* continuation calls next exactly once with its own receiver and arguments
\* and returns what next returns.
C9_Ordering ==
  /\ (obs.op = "call" /\ obs.form \in {3, 4} /\ obs.seen # NoTxn) =>
       /\ obs.started = 1
       /\ obs.log[1] = "startChild"
       /\ obs.log[2] = "fn"
       /\ \A k \in 1..Len(obs.log) :
            obs.log[k] = "next" => (k > 1 /\ obs.log[k - 1] = "span.finish")
  /\ obs.op = "next" =>
       /\ obs.nextCalls = <<[fn |-> NextVal(invs[obs.inv].res),
                            this |-> obs.this, args |-> obs.args]>>
       /\ obs.out = obs.nextOut
       /\ invs[obs.inv].clo.span # 0 => obs.log = <<"span.finish", "next">>

\* The substitute continuation of a call with a transaction has been called
\* with an error value.
C9_Witness ==
  /\ obs.op = "next"
  /\ obs.args = <<ErrVal>>
  /\ invs[obs.inv].clo.span # 0

\* C10: every invocation of the one wrapped callable starts its span on the
\* transaction its own response carries when it is called; a continuation call
\* or a 'finish' event finishes only the span its own invocation started; the
\* transaction of a response is only ever the one the tracing layer attached.
C10_Isolation ==
  /\ \A i \in 1..Len(invs) :
       /\ invs[i].clo.span # 0 <=> invs[i].seen # NoTxn
       /\ invs[i].clo.span # 0 =>
            /\ spans[invs[i].clo.span].txn = invs[i].seen
            /\ spans[invs[i].clo.span].txn = Txn(invs[i].res)
            /\ spans[invs[i].clo.span].by = i
  /\ \A s \in 1..Len(spans) : spans[s].finishedBy \subseteq {spans[s].by}
  /\ \A r \in Responses : \A k \in 1..Len(listeners[r]) :
       /\ invs[listeners[r][k].inv].res = r
       /\ invs[listeners[r][k].inv].clo.span = listeners[r][k].span
  /\ \A r \in Responses : txn[r] \in {NoTxn, Txn(r)}

\* Two requests are in flight, each with a span; the first one's is finished
\* and the second one's is not.
C10_Witness ==
  /\ Len(invs) = 2
  /\ invs[1].res # invs[2].res
  /\ invs[1].clo.span # 0
  /\ invs[2].clo.span # 0
  /\ spans[invs[1].clo.span].finishCalls = 1
  /\ spans[invs[2].clo.span].finishCalls = 0

====
